---- MODULE Spec2Model ----
(***************************************************************************)
(* Workflow execution in amitsajwan/hankaton_regulatory.                   *)
(*                                                                         *)
(* The repository holds several scripts that wire the same analysis steps  *)
(* into a graph, pause for a human decision and stream progress:           *)
(*   central_mind    src/central_mind.py   (src/better.py is its async     *)
(*                                          copy)                          *)
(*   langgraph_based src/langgraph_based.py                                *)
(*   core            src/core.py, driven by src/main.py                    *)
(*   gemini          src/gemini.py (socket handler, steps called in order) *)
(*   approval        src/approval.py (generate -> wait_for_user ->         *)
(*                                    complete)                            *)
(* One run of one script is modelled; `variant` says which script.         *)
(***************************************************************************)
EXTENDS Integers, Sequences, FiniteSets, TLC

VARIABLES
    variant,      \* the script that runs
    state,        \* the graph state (a Python dict): field name -> value
    cursor,       \* node about to execute, or that executed last; END after the last edge
    pc,           \* position of the run: idle, exec, route, gate, wait, done, closed
    status,       \* none, Running, Suspended, Completed, Failed
    error,        \* the exception that ended the run, "none" otherwise
    gate,         \* the human request of this run: none, Open, Resolved, TimedOut, Rejected
    sent,         \* types of the messages sent to the client since this run started
    executed,     \* the nodes whose function has returned or raised, in order
    resolveCalls, \* how many times the successor of a node was resolved
    queue,        \* approval: UserInteractionChannel.queue
    runs,         \* how many runs this session has started
    hist          \* history of the run (what happened at the gate and at the oracle)

vars == <<variant, state, cursor, pc, status, error, gate, sent, executed,
          resolveCalls, queue, runs, hist>>

\* ---------------------------------------------------------------- bounds
MaxRuns == 2      \* start requests per session
MaxSteps == 7     \* node executions of the approval loop
MaxQueue == 2     \* user decisions waiting in the channel
MaxAsked == 2     \* messages the gemini handler takes between two analyses
MaxForeign == 1   \* user decisions sent on another connection of the same client id

\* ------------------------------------------------------------- constants
END == "__end__"
NoEdge == "__no_edge__"

Variants == {"central_mind", "langgraph_based", "core", "gemini", "approval"}

\* What the oracle (llm.invoke) may return: a well-formed answer, text that
\* is not in the requested format, and JSON that is not an object.
WellFormed == "r1"
Garbage == "garbage"
NonObject == "[]"
Unclear == "Unclear"

OracleOut(v) ==
    CASE v = "core" -> {WellFormed, Unclear}
      [] v = "approval" -> {WellFormed}
      [] OTHER -> {WellFormed, Garbage, NonObject}

\* ------------------------------------------------------- dict operations
\* dict.update / LangGraph's per-key overwrite of the state by a node's result
Merge(st, update) == update @@ st

\* state.get(key, default)
Get(st, key, default) == IF key \in DOMAIN st THEN st[key] ELSE default

Log(st) == Get(st, "scratchpad", <<>>)

\* Python truthiness of state.get("human_intervention_needed")
Flag(st) == Get(st, "human_intervention_needed", FALSE)

\* A node's outcome: the exception it raised ("none" when it returned), the
\* partial update it returned, and the state as the node left it in place.
Ok(st, update) == [raised |-> "none", update |-> update, inplace |-> st]
Raise(st, exc) == [raised |-> exc, update |-> <<>>, inplace |-> st]

\* json.loads(text): raises JSONDecodeError on text that is not JSON
JsonDecodeFails(text) == text \notin {WellFormed, NonObject}
\* parsed.get(key): a parsed list has no .get (AttributeError)
JsonIsObject(text) == text = WellFormed
JsonGet(text, key) == text

\* -------------------------------------------------------- central_mind
\* parse_react_response: the last "Thought:" and "Action Result:" lines, "" when missing
parse_react_response(response) ==
    [thought |-> IF response = Garbage THEN "" ELSE "thought",
     result  |-> IF response = Garbage THEN "" ELSE response]

\* update_state: the update fields plus the scratchpad with one record appended
update_state(st, agent, response, update_fields) ==
    LET p == parse_react_response(response)
        new_scratch == [agent |-> agent, thought |-> p.thought, action_result |-> p.result]
    IN  [scratchpad |-> Log(st) \o <<new_scratch>>] @@ update_fields

\* [t.strip() for t in result.split(',') if t.strip()]
SplitTerms(result) == IF result = "" THEN <<>> ELSE <<result>>

\* a node that json.loads the Action Result and reads two keys of it
JsonNode(st, agent, response, key1, field1, key2, field2, extra) ==
    LET result == parse_react_response(response).result IN
    IF JsonDecodeFails(result) THEN Raise(st, "JSONDecodeError")
    ELSE IF ~JsonIsObject(result) THEN Raise(st, "AttributeError")
    ELSE Ok(st, update_state(st, agent, response,
                extra @@ (field1 :> JsonGet(result, key1)) @@ (field2 :> JsonGet(result, key2))))

TextNode(st, agent, response, field) ==
    Ok(st, update_state(st, agent, response,
                        field :> parse_react_response(response).result))

CentralMindNode(n, st, response) ==
    CASE n = "extract_terms" ->
            Ok(st, update_state(st, "Term Identifier", response,
                [regulatory_terms |-> SplitTerms(parse_react_response(response).result)]))
      [] n = "retrieve_context" -> TextNode(st, "Context Retriever", response, "external_context")
      [] n = "extract_obligation" -> TextNode(st, "Obligation Extractor", response, "obligation_sentence")
      [] n = "classify_theme" ->
            JsonNode(st, "Theme Classifier", response, "theme", "policy_theme",
                     "reasoning", "policy_theme_reasoning",
                     [human_intervention_needed |-> TRUE])
      [] n = "find_party" ->
            JsonNode(st, "Party Locator", response, "party", "responsible_party",
                     "reasoning", "responsible_party_reasoning", <<>>)
      [] n = "identify_division" ->
            JsonNode(st, "Division Identifier", response, "divisions", "divisional_impact",
                     "reasoning", "divisional_impact_reasoning", <<>>)
      [] n = "score_risk" ->
            JsonNode(st, "Risk Scorer", response, "score", "risk_score",
                     "reasoning", "risk_score_reasoning", <<>>)
      [] n = "summarize" -> TextNode(st, "Summarizer", response, "summary")
      [] n = "qa_critic" -> TextNode(st, "QA Critic", response, "qa_notes")

\* ------------------------------------------------------ langgraph_based
\* add_to_scratchpad: {"scratchpad": current_scratchpad + [new_entry]}
add_to_scratchpad(st, agent, thought, action_result) ==
    [scratchpad |-> Log(st) \o
        <<[agent |-> agent, thought |-> thought, action_result |-> action_result]>>]

LgJsonNode(st, agent, result, key1, field1, key2, field2, extra) ==
    IF JsonDecodeFails(result) THEN Raise(st, "JSONDecodeError")
    ELSE IF ~JsonIsObject(result) THEN Raise(st, "AttributeError")
    ELSE Ok(st, extra @@ (field2 :> JsonGet(result, key2)) @@ (field1 :> JsonGet(result, key1))
                  @@ add_to_scratchpad(st, agent, "thought", result))

LgTextNode(st, agent, result, field) ==
    Ok(st, (field :> result) @@ add_to_scratchpad(st, agent, "thought", result))

LanggraphBasedNode(n, st, result) ==
    CASE n = "extract_terms" ->
            Ok(st, [regulatory_terms |-> <<result>>]
                   @@ add_to_scratchpad(st, "Term Identifier", "thought", result))
      [] n = "retrieve_context" -> LgTextNode(st, "Context Retriever", result, "external_context")
      [] n = "extract_obligation" -> LgTextNode(st, "Obligation Extractor", result, "obligation_sentence")
      [] n = "classify_theme" ->
            LgJsonNode(st, "Theme Classifier", result, "theme", "policy_theme",
                       "reasoning", "policy_theme_reasoning",
                       [human_intervention_needed |-> TRUE])
      [] n = "find_party" ->
            LgJsonNode(st, "Party Locator", result, "party", "responsible_party",
                       "reasoning", "responsible_party_reasoning", <<>>)
      [] n = "identify_division" ->
            LgJsonNode(st, "Division Identifier", result, "divisions", "divisional_impact",
                       "reasoning", "divisional_impact_reasoning", <<>>)
      [] n = "score_risk" ->
            LgJsonNode(st, "Risk Scorer", result, "score", "risk_score",
                       "reasoning", "risk_score_reasoning", <<>>)
      [] n = "summarize" -> LgTextNode(st, "Summarizer", result, "summary")
      [] n = "qa_critic" -> LgTextNode(st, "QA Critic", result, "qa_notes")

\* ------------------------------------------------------------------ core
\* str.lower() on the classifier's answer
Lower(text) == IF text = Unclear THEN "unclear" ELSE text

\* add_message: appends {"agent", "message"} to scratchpad["intermediate_messages"]
\* of the dict the state holds (in place) and returns that dict
add_message(st, agent, msg) ==
    [scratchpad |-> Log(st) \o <<[agent |-> agent, message |-> msg]>>]

CoreStep(st, agent, msg, update) ==
    LET scratchpad == add_message(st, agent, msg)
    IN  [raised |-> "none", update |-> update @@ scratchpad,
         inplace |-> Merge(st, scratchpad)]

CoreNode(n, st, result) ==
    CASE n = "extractor" -> CoreStep(st, "PDF Extractor", "reading", [raw_text |-> st.raw_text])
      [] n = "regulation_summary" ->
            CoreStep(st, "Regulation Summary Extractor", result, [regulation_summary |-> result])
      [] n = "markdown" ->
            CoreStep(st, "Markdown Formatter", "formatting",
                     [markdown_text |-> <<"## Regulatory Requirement", st.raw_text>>])
      [] n = "terms" -> CoreStep(st, "Term Identifier", result, [regulatory_terms |-> <<result>>])
      [] n = "knowledge" -> CoreStep(st, "Knowledge Retriever", result, [external_context |-> result])
      [] n = "obligation" -> CoreStep(st, "Obligation Extractor", result, [obligation_sentence |-> result])
      [] n = "theme" ->
            CoreStep(st, "Theme Classifier", result,
                     [policy_theme |-> result,
                      human_intervention_needed |-> Lower(result) \in {"unclear", "multiple"}])
      [] n = "responsible_party" ->
            CoreStep(st, "Responsible Party Locator", result, [responsible_party |-> result])
      [] n = "compliance_dates" ->
            CoreStep(st, "Compliance Timeline Extractor", result, [compliance_dates |-> result])
      [] n = "divisional_impact" ->
            CoreStep(st, "Divisional Impact Extractor", result, [divisional_impact |-> result])
      [] n = "ownership" -> CoreStep(st, "Ownership Extractor", result, [ownership |-> result])
      [] n = "summary" -> CoreStep(st, "Summarizer", result, [summary |-> result])

\* nodes of core.py that do not call the oracle
CoreSilent == {"extractor", "markdown"}

\* ---------------------------------------------------------------- gemini
\* the state the handler builds for start_analysis
GeminiInitialState(reg_id, title) ==
    [documentLabels |-> <<reg_id>>, title |-> title, summary |-> title,
     regulatory_terms |-> <<>>, external_context |-> "", obligation_sentence |-> "",
     identified_document |-> "", nature_of_obligation |-> "",
     irr_topic |-> "", irr_topic_reasoning |-> "",
     region_topic |-> "", region_topic_reasoning |-> "",
     responsible_party |-> "", responsible_party_reasoning |-> "",
     divisional_impact |-> <<>>, divisional_impact_reasoning |-> "",
     risk_score |-> "", risk_score_reasoning |-> "",
     timelines |-> <<>>, timelines_reasoning |-> "", qa_notes |-> "",
     human_intervention_needed |-> TRUE, json_output |-> "{}", scratchpad |-> <<>>]

\* parse_react_response of gemini.py: json.loads(response).get("Action Result", {});
\* a JSONDecodeError is caught and gives {}, a parsed list raises AttributeError
GeminiParseRaises(response) == response = NonObject
GeminiParsedContent(response) == IF response = WellFormed THEN response ELSE "{}"
\* parsed_content[parsed_key]: the terms are a list, the other values strings
GeminiParsedValue(response, field) ==
    IF field = "regulatory_terms" THEN <<response>> ELSE response
\* `parsed_key in parsed_content`: the well-formed answer holds the keys asked for
GeminiHasKeys(response) == response = WellFormed

\* update_state of gemini.py: the response is appended to the list the state
\* holds (in place), then parsed; the fields whose key was parsed are set
GeminiUpdateState(st, agent, response, fields) ==
    LET appended == [st EXCEPT !.scratchpad = Append(@, response)] IN
    IF GeminiParseRaises(response) THEN Raise(appended, "AttributeError")
    ELSE [raised |-> "none",
          update |-> [f \in (IF GeminiHasKeys(response) THEN fields ELSE {})
                            |-> GeminiParsedValue(response, f)]
                     @@ [scratchpad |-> appended.scratchpad,
                         json_output |-> GeminiParsedContent(response)],
          inplace |-> appended]

GeminiNode(n, st, response) ==
    CASE n = "extract_terms" ->
            GeminiUpdateState(st, "Term Identifier", response, {"regulatory_terms"})
      [] n = "retrieve_context" ->
            GeminiUpdateState(st, "Context Retriever", response, {"external_context"})
      [] n = "extract_obligation" ->
            GeminiUpdateState(st, "Obligation Extractor", response,
                {"identified_document", "obligation_sentence", "nature_of_obligation"})
      [] n = "classify_irr_topic" ->
            GeminiUpdateState(st, "IRR Topic Classifier", response,
                {"irr_topic", "irr_topic_reasoning"})
      [] n = "summarize" ->
            GeminiUpdateState(st, "Summarizer", response, {"summary"})

\* -------------------------------------------------------------- approval
InterventionRequired(message) == [type |-> "intervention_required", message |-> message]

\* result.get("approved") of what wait_for_user_node received
Approved(result) == Get(result, "approved", FALSE)

ApprovalNode(n, st, received) ==
    CASE n = "generate" -> Ok(st, [message |-> "Should we proceed?", approved |-> FALSE])
      [] n = "wait_for_user" -> Ok(st, [approved |-> Approved(received)])
      [] n = "complete" -> Ok(st, [message |-> "Approval received."])

\* the router proceeds whatever the state says
should_continue_proceeds(st) == "proceed"

\* should_continue
should_continue(st) == IF Get(st, "approved", FALSE) THEN "proceed" ELSE "wait_again"

\* ----------------------------------------------------------------- graphs
Entry(v) ==
    CASE v = "core" -> "extractor"
      [] v = "approval" -> "generate"
      [] OTHER -> "extract_terms"

\* the node that asks the human
GateNode(v) ==
    CASE v \in {"langgraph_based", "gemini"} -> "human_intervention"
      [] v = "approval" -> "wait_for_user"
      [] OTHER -> "human_intervention_node"

\* the edges with the risk score placed before the divisions
AnalysisEdgeSwapped(g, n) ==
    CASE n = "extract_terms" -> "retrieve_context"
      [] n = "retrieve_context" -> "extract_obligation"
      [] n = "extract_obligation" -> "classify_theme"
      [] n = g -> "find_party"
      [] n = "find_party" -> "score_risk"
      [] n = "score_risk" -> "identify_division"
      [] n = "identify_division" -> "summarize"
      [] n = "summarize" -> "qa_critic"
      [] n = "qa_critic" -> END
      [] OTHER -> NoEdge

\* add_edge(from, to) of build_workflow / build_graph; for gemini the order of
\* the calls in the handler.  NoEdge when the node has no unconditional edge.
AnalysisEdge(g, n) ==
    CASE n = "extract_terms" -> "retrieve_context"
      [] n = "retrieve_context" -> "extract_obligation"
      [] n = "extract_obligation" -> "classify_theme"
      [] n = g -> "find_party"
      [] n = "find_party" -> "identify_division"
      [] n = "identify_division" -> "score_risk"
      [] n = "score_risk" -> "summarize"
      [] n = "summarize" -> "qa_critic"
      [] n = "qa_critic" -> END
      [] OTHER -> NoEdge

\* the edges of core.py with one from the summary back to the theme classifier
CoreEdgeLoop(n) ==
    CASE n = "extractor" -> "regulation_summary"
      [] n = "regulation_summary" -> "markdown"
      [] n = "markdown" -> "terms"
      [] n = "terms" -> "knowledge"
      [] n = "knowledge" -> "obligation"
      [] n = "obligation" -> "theme"
      [] n = "human_intervention_node" -> "responsible_party"
      [] n = "responsible_party" -> "compliance_dates"
      [] n = "compliance_dates" -> "divisional_impact"
      [] n = "divisional_impact" -> "ownership"
      [] n = "ownership" -> "summary"
      [] n = "summary" -> "theme"
      [] OTHER -> NoEdge

CoreEdge(n) ==
    CASE n = "extractor" -> "regulation_summary"
      [] n = "regulation_summary" -> "markdown"
      [] n = "markdown" -> "terms"
      [] n = "terms" -> "knowledge"
      [] n = "knowledge" -> "obligation"
      [] n = "obligation" -> "theme"
      [] n = "human_intervention_node" -> "responsible_party"
      [] n = "responsible_party" -> "compliance_dates"
      [] n = "compliance_dates" -> "divisional_impact"
      [] n = "divisional_impact" -> "ownership"
      [] n = "ownership" -> "summary"
      [] n = "summary" -> END
      [] OTHER -> NoEdge

GeminiEdge(n) ==
    CASE n = "extract_terms" -> "retrieve_context"
      [] n = "retrieve_context" -> "extract_obligation"
      [] n = "human_intervention" -> "classify_irr_topic"
      [] n = "classify_irr_topic" -> "summarize"
      [] n = "summarize" -> END
      [] OTHER -> NoEdge

ApprovalEdge(n) ==
    CASE n = "generate" -> "wait_for_user"
      [] n = "complete" -> END
      [] OTHER -> NoEdge

\* the edges without the one that leaves the gate
EdgeGateDangling(v, n) ==
    IF n = GateNode(v) THEN NoEdge
    ELSE CASE v = "central_mind" -> AnalysisEdge("human_intervention_node", n)
           [] v = "langgraph_based" -> AnalysisEdge("human_intervention", n)
           [] v = "core" -> CoreEdge(n)
           [] v = "gemini" -> GeminiEdge(n)
           [] v = "approval" -> ApprovalEdge(n)

Edge(v, n) ==
    CASE v = "central_mind" -> AnalysisEdge("human_intervention_node", n)
      [] v = "langgraph_based" -> AnalysisEdge("human_intervention", n)
      [] v = "core" -> CoreEdge(n)
      [] v = "gemini" -> GeminiEdge(n)
      [] v = "approval" -> ApprovalEdge(n)

\* the node with the conditional edge
Branching(v) ==
    CASE v = "core" -> "theme"
      [] v = "gemini" -> "extract_obligation"
      [] v = "approval" -> "wait_for_user"
      [] OTHER -> "classify_theme"

\* the router sends the run to the human when the flag is not set
RouterInverted(v, st) ==
    CASE v = "gemini" -> IF Flag(st) THEN "continue" ELSE "intervene"
      [] v = "approval" -> should_continue(st)
      [] OTHER -> IF Flag(st) THEN "continue" ELSE "human_intervention_node"

\* check_for_human_intervention / should_continue
Router(v, st) ==
    CASE v = "gemini" -> IF Flag(st) THEN "intervene" ELSE "continue"
      [] v = "approval" -> should_continue(st)
      [] OTHER -> IF Flag(st) THEN "human_intervention_node" ELSE "continue"

\* the label maps with the gate's label of langgraph_based named after its node
LabelMapMisnamed(v) ==
    CASE v = "central_mind" ->
            [human_intervention_node |-> "human_intervention_node", continue |-> "find_party"]
      [] v = "langgraph_based" ->
            [human_intervention |-> "human_intervention", continue |-> "find_party"]
      [] v = "core" ->
            [human_intervention_node |-> "human_intervention_node", continue |-> "responsible_party"]
      [] v = "gemini" ->
            [intervene |-> "human_intervention", continue |-> "classify_irr_topic"]
      [] v = "approval" ->
            [proceed |-> "complete", wait_again |-> "wait_for_user"]

\* the label map of add_conditional_edges
LabelMap(v) ==
    CASE v = "central_mind" ->
            [human_intervention_node |-> "human_intervention_node", continue |-> "find_party"]
      [] v = "langgraph_based" ->
            [human_intervention_node |-> "human_intervention", continue |-> "find_party"]
      [] v = "core" ->
            [human_intervention_node |-> "human_intervention_node", continue |-> "responsible_party"]
      [] v = "gemini" ->
            [intervene |-> "human_intervention", continue |-> "classify_irr_topic"]
      [] v = "approval" ->
            [proceed |-> "complete", wait_again |-> "wait_for_user"]

\* only the unconditional edges are followed
resolve_next_edges_only(v, n, st) == Edge(v, n)

\* the successor of node n: the unconditional edge, else the router's label
\* looked up in the label map, else nothing (the run ends at n)
resolve_next(v, n, st) ==
    IF Edge(v, n) # NoEdge THEN Edge(v, n)
    ELSE IF n = Branching(v) /\ Router(v, st) \in DOMAIN LabelMap(v)
         THEN LabelMap(v)[Router(v, st)]
         ELSE NoEdge

Node(v, n, st, response) ==
    CASE v = "central_mind" -> CentralMindNode(n, st, response)
      [] v = "langgraph_based" -> LanggraphBasedNode(n, st, response)
      [] v = "core" -> CoreNode(n, st, response)
      [] v = "gemini" -> GeminiNode(n, st, response)
      [] v = "approval" -> ApprovalNode(n, st, response)

\* ------------------------------------------------------------------ inputs
\* payload of start_analysis: with and without the "::" separator
StartPayloads == {"R1 :: T", "R1 T"}
HasSeparator(payload) == payload = "R1 :: T"

\* request.get("text") of main.py
Texts == {"t", ""}

\* what the human types at input(): nothing, blanks, a theme (with blanks around)
Inputs == {"", " ", " Financial Filing "}
Strip(text) ==
    CASE text = " " -> ""
      [] text = " Financial Filing " -> "Financial Filing"
      [] OTHER -> text

\* payload of a human_feedback message
Payloads ==
    { <<>>,
      [irr_topic |-> "Financial Filing"],
      [summary |-> "edited", obligation_sentence |-> "edited"],
      [human_intervention_needed |-> TRUE],
      [scratchpad |-> <<>>],
      [reviewer |-> "alice"] }

\* what else may arrive (or not) while the handler waits for the feedback
NoFeedback == {"user_query", "other_type", "invalid_json", "payload_not_a_dict"}

\* payload of a user_decision message
Decisions == { [approved |-> TRUE], [approved |-> FALSE], <<>> }

Hist0 ==
    [openState |-> <<>>,      \* the state when the gate opened
     overrides |-> <<>>,      \* the field overrides the gate was resolved with
     preStep |-> <<>>,        \* the state before the last node
     lastResponse |-> "none", \* what the oracle returned to the last node
     actedWhileOpen |-> FALSE,\* a node ran or an edge was resolved while the gate was open
     ownMessage |-> FALSE,    \* the gate consumed the request the run itself sent
     afterGate |-> "none",    \* the first node that ran after the gate
     ended |-> "none",        \* what made the gate node return
     opened |-> 0,            \* intervention requests sent so far
     closed |-> 0,            \* intervention requests answered or given up so far
     responses |-> <<>>,      \* what the oracle returned to each executed node
     committed |-> <<>>,      \* the state the last completed node returned
     asked |-> 0,             \* messages handled by the handler after the run
     snapshot |-> <<>>,       \* the state the last user_query was answered from
     disconnected |-> FALSE,  \* gemini: the client has gone and the handler has not noticed yet
     goneAt |-> 0,            \* how many nodes had executed when the client went
     foreign |-> 0,           \* user decisions another connection put on the channel
     flagAtRouter |-> <<>>,   \* the needs-human flag each time the router was evaluated
     final |-> <<>>,          \* gemini: the payload of the analysis_complete message
     request |-> "none",      \* gemini: how the handler took the last message it read
     oracleCalls |-> 0]       \* gemini: calls of llm.invoke since the analysis started

\* -------------------------------------------------------------------- Init
Init ==
    /\ variant \in Variants
    /\ state = <<>>
    /\ cursor = "none"
    /\ pc = "idle"
    /\ status = "none"
    /\ error = "none"
    /\ gate = "none"
    /\ sent = <<>>
    /\ executed = <<>>
    /\ resolveCalls = 0
    /\ queue = <<>>
    /\ runs = 0
    /\ hist = Hist0

\* the run starts at the entry point with a fresh state
Begin(st, first) ==
    /\ state' = st
    /\ cursor' = Entry(variant)
    /\ pc' = "exec"
    /\ status' = "Running"
    /\ error' = "none"
    /\ gate' = "none"
    /\ sent' = first
    /\ executed' = <<>>
    /\ resolveCalls' = 0
    /\ runs' = runs + 1
    /\ hist' = [Hist0 EXCEPT !.committed = st, !.request = "start_analysis"]

\* a start_analysis message is taken up while a node of the running analysis
\* is still to execute
StartAnalysisWhileRunning ==
    /\ variant = "gemini"
    /\ pc \in {"idle", "exec"}
    /\ runs < MaxRuns
    /\ Begin(GeminiInitialState("R1", "T"), <<"info">>)
    /\ UNCHANGED <<variant, queue>>

\* gemini.handler: a start_analysis message
StartAnalysis ==
    /\ variant = "gemini"
    /\ pc = "idle"
    /\ runs < MaxRuns
    /\ \E payload \in StartPayloads :
         IF HasSeparator(payload)
         THEN Begin(GeminiInitialState("R1", "T"), <<"info">>)
         ELSE /\ sent' = <<"error">>
              /\ hist' = [hist EXCEPT !.request = "start_rejected"]
              /\ UNCHANGED <<state, cursor, pc, status, error, gate, executed,
                             resolveCalls, runs>>
    /\ UNCHANGED <<variant, queue>>

\* main.chat_websocket: a request; the graph of core.py runs on its text
ChatRequest ==
    /\ variant = "core"
    /\ pc = "idle"
    /\ runs < MaxRuns
    /\ \E text \in Texts :
         IF text # ""
         THEN Begin([raw_text |-> text, scratchpad |-> <<>>], <<"running">>)
         ELSE /\ sent' = <<"empty_text">>
              /\ UNCHANGED <<state, cursor, pc, status, error, gate, executed,
                             resolveCalls, runs, hist>>
    /\ UNCHANGED <<variant, queue>>

\* the compiled graph of central_mind / langgraph_based is streamed once
Invoke ==
    /\ variant \in {"central_mind", "langgraph_based"}
    /\ pc = "idle"
    /\ runs = 0
    /\ Begin([raw_text |-> "t", scratchpad |-> <<>>], <<>>)
    /\ UNCHANGED <<variant, queue>>

\* approval.chat: the graph is streamed when the client connects
Chat ==
    /\ variant = "approval"
    /\ pc = "idle"
    /\ runs = 0
    /\ Begin([message |-> "", approved |-> FALSE], <<>>)
    /\ UNCHANGED <<variant, queue>>

\* ------------------------------------------------------------------ steps
\* the progress message a finished node causes: update_state of gemini.py,
\* the astream loop of main.py, stream_loop of approval.py
StepEvent(v) ==
    CASE v = "gemini" -> <<"progress">>
      [] v = "core" -> <<"step">>
      [] v = "approval" -> <<"event">>
      [] OTHER -> <<>>

\* the node's function returned: its update is merged and the run goes on to
\* resolve the successor
Returned(res) ==
    /\ state' = Merge(res.inplace, res.update)
    /\ sent' = sent \o StepEvent(variant)
    /\ pc' = "route"
    /\ UNCHANGED <<status, error>>

\* the node's function raised: nothing is merged.  gemini's handler catches
\* the exception, reports it and waits for the next message; a graph run ends.
Raised(res) ==
    /\ state' = res.inplace
    /\ sent' = IF variant = "gemini" THEN Append(sent, "error") ELSE sent
    /\ pc' = IF variant = "gemini" THEN "idle" ELSE "done"
    /\ status' = "Failed"
    /\ error' = res.raised

\* gemini: the node's websocket.send raises ConnectionClosed, so do the sends
\* of the except clauses on the way out, and the handler ends (gemini.py
\* 424-429).  What the node had built is lost; what it changed in place stays.
SendFailed(st) ==
    /\ state' = st
    /\ sent' = sent
    /\ pc' = "closed"
    /\ status' = "Failed"
    /\ error' = "ConnectionClosed"

Ran(n, response) ==
    [hist EXCEPT !.preStep = state, !.lastResponse = response,
                 !.responses = Append(@, response),
                 !.actedWhileOpen = @ \/ gate = "Open",
                 !.afterGate = IF @ = "none" /\ gate \notin {"none", "Open"} THEN n ELSE @]

\* a node other than the gate runs: it calls the oracle and returns its update
NodeStep ==
    /\ pc = "exec"
    /\ cursor # GateNode(variant)
    /\ Len(executed) < MaxSteps \/ variant # "approval"
    /\ \E response \in OracleOut(variant) :
         LET res == Node(variant, cursor, state, response) IN
         /\ variant = "core" /\ cursor \in CoreSilent => response = WellFormed
         /\ IF variant = "gemini" /\ hist.disconnected THEN SendFailed(res.inplace)
            ELSE IF res.raised = "none" THEN Returned(res) ELSE Raised(res)
         /\ hist' = [Ran(cursor, response) EXCEPT
                        !.committed = IF res.raised = "none" /\ ~hist.disconnected
                                      THEN Merge(res.inplace, res.update) ELSE @,
                        !.oracleCalls = IF variant = "gemini" THEN @ + 1 ELSE @]
    /\ executed' = Append(executed, cursor)
    /\ UNCHANGED <<variant, cursor, gate, resolveCalls, queue, runs>>

\* approval.wait_for_user_node: the request is put on the channel's queue and
\* the next item of the same queue is taken as the user's answer
WaitForUser ==
    /\ variant = "approval"
    /\ pc = "exec"
    /\ cursor = "wait_for_user"
    /\ Len(executed) < MaxSteps
    /\ LET put == Append(queue, InterventionRequired(state.message))
           result == Head(put)
           own == "type" \in DOMAIN result
       IN  /\ queue' = Tail(put)
           /\ Returned(ApprovalNode(cursor, state, result))
           /\ gate' = IF own THEN "Open" ELSE "Resolved"
           /\ hist' = [Ran(cursor, "none") EXCEPT
                          !.ownMessage = @ \/ own,
                          !.overrides = result,
                          !.opened = @ + 1,
                          !.closed = IF own THEN @ ELSE @ + 1,
                          !.committed = Merge(state, ApprovalNode(cursor, state, result).update)]
    /\ executed' = Append(executed, cursor)
    /\ UNCHANGED <<variant, cursor, resolveCalls, runs>>

\* approval.receive_loop: a user_decision message is put on the channel's queue
UserDecision ==
    /\ variant = "approval"
    /\ runs > 0
    /\ Len(queue) < MaxQueue
    /\ \E payload \in Decisions : queue' = Append(queue, payload)
    /\ UNCHANGED <<variant, state, cursor, pc, status, error, gate, sent, executed,
                   resolveCalls, runs, hist>>

\* approval: a second connection to /chat/{client_id} with the same client id
\* gets the same channel from get_channel; its receive_loop puts the decision
\* its user sent for its own run on the queue this run reads
OtherSessionDecision ==
    /\ variant = "approval"
    /\ runs > 0
    /\ Len(queue) < MaxQueue
    /\ hist.foreign < MaxForeign
    /\ \E payload \in Decisions : queue' = Append(queue, payload)
    /\ hist' = [hist EXCEPT !.foreign = @ + 1]
    /\ UNCHANGED <<variant, state, cursor, pc, status, error, gate, sent, executed,
                   resolveCalls, runs>>

\* the message that ends a run, sent a second time
FinalEventTwice(v) ==
    CASE v = "gemini" -> <<"analysis_complete", "analysis_complete">>
      [] v = "core" -> <<"summary", "summary">>
      [] OTHER -> <<>>

\* the message that ends a run: analysis_complete of gemini.py, the summary of main.py
FinalEvent(v) ==
    CASE v = "gemini" -> <<"analysis_complete">>
      [] v = "core" -> <<"summary">>
      [] OTHER -> <<>>

\* the checkpoints a run has saved.  No script saves any: gemini.py keeps the
\* state in the handler's local current_state, approval.py and core.py call
\* compile() without a checkpointer, main.py and langgraph_based.py call
\* build_workflow without one.
SavedCheckpoints(v) == <<>>

\* after a node: its successor is resolved; the run ends at END, and also at
\* a node that has no successor
Route ==
    /\ pc = "route"
    /\ LET next == resolve_next(variant, cursor, state) IN
         IF next \in {END, NoEdge}
         THEN /\ cursor' = IF next = END THEN END ELSE cursor
              /\ IF variant = "gemini" /\ hist.disconnected
                 THEN /\ status' = "Failed"
                      /\ error' = "ConnectionClosed"
                      /\ pc' = "closed"
                      /\ sent' = sent
                 ELSE /\ status' = "Completed"
                      /\ pc' = IF variant \in {"gemini", "core"} THEN "idle" ELSE "done"
                      /\ sent' = sent \o FinalEvent(variant)
                      /\ error' = error
         ELSE /\ cursor' = next
              /\ pc' = IF next = GateNode(variant) /\ variant # "approval" THEN "gate" ELSE "exec"
              /\ UNCHANGED <<status, sent, error>>
    /\ resolveCalls' = resolveCalls + 1
    /\ hist' = [hist EXCEPT !.actedWhileOpen = @ \/ gate = "Open",
                             !.flagAtRouter = IF cursor = Branching(variant)
                                              THEN Append(@, Flag(state)) ELSE @,
                             !.final = IF /\ variant = "gemini"
                                          /\ resolve_next(variant, cursor, state) \in {END, NoEdge}
                                          /\ ~hist.disconnected
                                       THEN state ELSE @]
    /\ UNCHANGED <<variant, state, gate, executed, queue, runs>>

\* ------------------------------------------------------------------- gate
\* human_intervention_node is entered: gemini sends human_intervention_required
\* and awaits websocket.recv(); the graph scripts print the theme and block in input()
GateOpen ==
    /\ pc = "gate"
    /\ cursor = GateNode(variant)
    /\ ~hist.disconnected
    /\ gate' = "Open"
    /\ status' = "Suspended"
    /\ pc' = "wait"
    /\ sent' = IF variant = "gemini" THEN Append(sent, "human_intervention_required") ELSE sent
    /\ hist' = [hist EXCEPT !.openState = state, !.opened = @ + 1]
    /\ UNCHANGED <<variant, state, cursor, error, executed, resolveCalls, queue, runs>>

\* a gate that clears the flag and drops what the human typed
HumanUpdateDropsOverride(v, st, user_input) ==
    [human_intervention_needed |-> FALSE]

\* what human_intervention_node of the graph scripts returns for the typed line
HumanUpdate(v, st, user_input) ==
    LET current == Get(st, "policy_theme", "None")
        override == Strip(user_input)
    IN  CASE v = "central_mind" ->
                [policy_theme |-> IF override # "" THEN override ELSE current,
                 human_intervention_needed |-> FALSE]
          [] v = "langgraph_based" ->
                IF override # ""
                THEN [policy_theme |-> override, human_intervention_needed |-> FALSE]
                ELSE [human_intervention_needed |-> FALSE]
          [] v = "core" ->
                LET updated == IF override # "" THEN override ELSE current IN
                [policy_theme |-> updated, human_intervention_needed |-> FALSE]
                @@ add_message(st, "Human-in-the-Loop", updated)

\* the field overrides a typed line stands for
InputOverrides(user_input) ==
    IF Strip(user_input) # "" THEN [policy_theme |-> Strip(user_input)] ELSE <<>>

\* the gate node returns and the run goes on
GateDone(outcome, how, newState, overrides, event) ==
    /\ gate' = outcome
    /\ state' = newState
    /\ status' = "Running"
    /\ pc' = "route"
    /\ sent' = sent \o event
    /\ executed' = Append(executed, cursor)
    /\ hist' = [hist EXCEPT !.overrides = overrides, !.preStep = state,
                             !.lastResponse = "none",
                             !.responses = Append(@, "none"),
                             !.ended = how, !.closed = @ + 1,
                             !.committed = newState]
    /\ UNCHANGED <<variant, cursor, error, resolveCalls, queue, runs>>

\* the human answers the prompt of a graph script
HumanInput ==
    /\ pc = "wait"
    /\ variant \in {"central_mind", "langgraph_based", "core"}
    /\ \E user_input \in Inputs :
         GateDone("Resolved", "input", Merge(state, HumanUpdate(variant, state, user_input)),
                  InputOverrides(user_input), StepEvent(variant))

\* the feedback only fills keys the state does not hold yet
ApplyFeedbackKeepsState(st, payload) ==
    [human_intervention_needed |-> FALSE] @@ Merge(payload, st)

\* new_state = state.copy(); new_state.update(payload); the flag is cleared
ApplyFeedback(st, payload) ==
    [human_intervention_needed |-> FALSE] @@ Merge(st, payload)

\* the feedback is merged and the flag is left as the merge made it
HumanFeedbackKeepsFlag ==
    /\ pc = "wait"
    /\ variant = "gemini"
    /\ \E payload \in Payloads :
         GateDone("Resolved", "human_feedback", Merge(state, payload), payload, <<"info">>)

\* gemini: a human_feedback message arrives within the timeout
HumanFeedback ==
    /\ pc = "wait"
    /\ variant = "gemini"
    /\ \E payload \in Payloads :
         GateDone("Resolved", "human_feedback", ApplyFeedback(state, payload), payload,
                  <<"info">>)

\* on the timeout the node gives the wait up and clears the flag
GateTimeoutClearsFlag ==
    /\ pc = "wait"
    /\ variant = "gemini"
    /\ GateDone("TimedOut", "timeout", [human_intervention_needed |-> FALSE] @@ state,
                <<>>, <<"error">>)

\* gemini: asyncio.wait_for times out after 300 s; the node reports it and
\* returns the state it was given
GateTimeout ==
    /\ pc = "wait"
    /\ variant = "gemini"
    /\ GateDone("TimedOut", "timeout", state, <<>>, <<"error">>)

\* gemini: the message that arrives is not a usable human_feedback; the node
\* reports it and returns the state it was given
GateNoFeedback ==
    /\ pc = "wait"
    /\ variant = "gemini"
    /\ \E what \in NoFeedback : GateDone("Rejected", what, state, <<>>, <<"error">>)

\* ------------------------------------------------------------- disconnect
\* gemini: the client goes away.  Between two analyses the handler's message
\* loop ends at once.  While the gate waits, websocket.recv raises, the send of
\* the gate's except clause raises again and the handler ends.  Anywhere else
\* the handler notices only at its next send.
Disconnect ==
    /\ variant = "gemini"
    /\ pc \in {"idle", "exec", "route", "gate", "wait"}
    /\ ~hist.disconnected
    /\ hist' = [hist EXCEPT !.disconnected = TRUE, !.goneAt = Len(executed)]
    /\ pc' = IF pc \in {"idle", "wait"} THEN "closed" ELSE pc
    /\ status' = IF pc = "wait" THEN "Failed" ELSE status
    /\ error' = IF pc = "wait" THEN "ConnectionClosed" ELSE error
    /\ UNCHANGED <<variant, state, cursor, gate, sent, executed, resolveCalls, queue, runs>>

\* gemini.human_intervention_node with a closed websocket: it returns the state
\* it was given without asking anybody, and the handler goes on
GateSkipped ==
    /\ variant = "gemini"
    /\ pc = "gate"
    /\ cursor = GateNode(variant)
    /\ hist.disconnected
    /\ pc' = "route"
    /\ executed' = Append(executed, cursor)
    /\ hist' = [hist EXCEPT !.preStep = state, !.lastResponse = "none",
                             !.responses = Append(@, "none"), !.ended = "closed"]
    /\ UNCHANGED <<variant, state, cursor, status, error, gate, sent, resolveCalls,
                   queue, runs>>

\* ---------------------------------------------------------------- queries
\* message types the gemini handler has no branch for; human_feedback is one
\* of them when it arrives after the gate node has returned
UnknownTypes == {"human_feedback", "other_type"}

\* gemini.handler, user_query: the handler is between two analyses.  Without a
\* state it reports an error; otherwise handle_user_query asks the oracle about
\* json.dumps(current_state) and sends the answer (or the default answer when
\* the reply does not parse); an exception is caught by the handler loop.
UserQuery ==
    /\ variant = "gemini"
    /\ pc = "idle"
    /\ hist.asked < MaxAsked
    /\ \E response \in OracleOut(variant) :
         LET answered == state # <<>> /\ ~GeminiParseRaises(response) IN
         /\ sent' = Append(sent, IF answered THEN "query_answer" ELSE "error")
         /\ hist' = [hist EXCEPT !.asked = @ + 1,
                                 !.snapshot = IF answered THEN state ELSE @,
                                 !.request = IF state = <<>> THEN "query_rejected"
                                             ELSE "user_query",
                                 !.oracleCalls = IF state = <<>> THEN @ ELSE @ + 1]
    /\ UNCHANGED <<variant, state, cursor, pc, status, error, gate, executed,
                   resolveCalls, queue, runs>>

\* an unknown message that makes the handler forget the analysis
UnknownMessageClearsState ==
    /\ variant = "gemini"
    /\ pc = "idle"
    /\ hist.asked < MaxAsked
    /\ \E msg_type \in UnknownTypes :
         /\ sent' = Append(sent, "error")
         /\ hist' = [hist EXCEPT !.asked = @ + 1, !.request = "unknown"]
    /\ state' = <<>>
    /\ UNCHANGED <<variant, cursor, pc, status, error, gate, executed,
                   resolveCalls, queue, runs>>

\* gemini.handler, else branch: "Unknown message type"
UnknownMessage ==
    /\ variant = "gemini"
    /\ pc = "idle"
    /\ hist.asked < MaxAsked
    /\ \E msg_type \in UnknownTypes :
         /\ sent' = Append(sent, "error")
         /\ hist' = [hist EXCEPT !.asked = @ + 1, !.request = "unknown"]
    /\ UNCHANGED <<variant, state, cursor, pc, status, error, gate, executed,
                   resolveCalls, queue, runs>>

\* -------------------------------------------------------------------- Next
Next ==
    \/ StartAnalysis
    \/ ChatRequest
    \/ Invoke
    \/ Chat
    \/ NodeStep
    \/ WaitForUser
    \/ UserDecision
    \/ Route
    \/ GateOpen
    \/ HumanInput
    \/ HumanFeedback
    \/ GateTimeout
    \/ GateNoFeedback
    \/ UserQuery
    \/ UnknownMessage
    \/ Disconnect
    \/ GateSkipped
    \/ OtherSessionDecision

Spec == Init /\ [][Next]_vars

\* ================================================================== claims
IsPrefix(a, b) == Len(a) <= Len(b) /\ SubSeq(b, 1, Len(a)) = a

\* the needs-human flag and the log are the run's `pending` and `log`
Bookkeeping == {"human_intervention_needed", "scratchpad"}

\* the steps that ran, the gate left out
StepsRun == SelectSeq(executed, LAMBDA n : n # GateNode(variant))

\* C1: a gate request that times out fails the run with InterventionTimeout;
\* such a run never completes.  Stated on the end of the run: once the gate
\* has timed out, the run ends Failed with that error.
C1_TimeoutFailsRun ==
    (gate = "TimedOut" /\ pc \in {"idle", "done"})
        => (status = "Failed" /\ error = "InterventionTimeout")

\* C2: within a run the log only grows: every step of the run leaves the old
\* log as a prefix of the new one.
C2_LogAppendOnly ==
    [][runs' = runs => IsPrefix(Log(state), Log(state'))]_vars

\* Scenario A: a run of an analysis graph (classifier, then the gate, then the
\* party locator) whose gate was resolved with a theme override, at its end
ScenarioA ==
    /\ variant \in {"central_mind", "langgraph_based", "core"}
    /\ status = "Completed"
    /\ gate = "Resolved"
    /\ "policy_theme" \in DOMAIN hist.overrides

\* C3 as stated: in scenario A the final theme is the override and the log
\* holds one record per executed step and none from the gate.
C3_ScenarioA_NoGateRecord ==
    ScenarioA => /\ state.policy_theme = hist.overrides.policy_theme
                 /\ Len(Log(state)) = Len(StepsRun)

\* C3 amended: in scenario A the final theme is the override and the log holds
\* one record per executed step; the gate adds no record in central_mind and
\* langgraph_based and exactly one record in core.
C3_ScenarioA ==
    ScenarioA => /\ state.policy_theme = hist.overrides.policy_theme
                 /\ Len(Log(state)) = Len(StepsRun) + (IF variant = "core" THEN 1 ELSE 0)

C3_Witness ==
    /\ ScenarioA
    /\ variant = "central_mind"
    /\ state.policy_theme = "Financial Filing"
    /\ Len(Log(state)) = 9

\* C4: when the gate times out the run is Failed with InterventionTimeout and
\* the envelope is the one the gate was opened with (no override applied).
C4_TimeoutLeavesEnvelope ==
    (gate = "TimedOut" /\ pc = "route" /\ cursor = GateNode(variant))
        => /\ status = "Failed"
           /\ error = "InterventionTimeout"
           /\ state = hist.openState

\* the oracle returned text that the step cannot parse: gemini parses every
\* response as JSON, central_mind and langgraph_based the answers of four nodes
Malformed(v, n, response) ==
    /\ response = Garbage
    /\ \/ v = "gemini"
       \/ /\ v \in {"central_mind", "langgraph_based"}
          /\ n \in {"classify_theme", "find_party", "identify_division", "score_risk"}

\* C5: a step whose oracle response does not parse fails the run with a
\* malformed-response error and applies nothing: the envelope and its log are
\* those before the step and the run does not go on to the next step.
C5_MalformedAppliesNothing ==
    (/\ executed # <<>>
     /\ hist.lastResponse # "none"
     /\ Malformed(variant, executed[Len(executed)], hist.lastResponse))
        => /\ status = "Failed"
           /\ error \in {"JSONDecodeError", "AttributeError"}
           /\ state = hist.preStep

\* C6: a run that completes has resolved the successor once per executed node
\* and ended on the terminal marker.
C6_CompletedAtTerminal ==
    status = "Completed" => (resolveCalls = Len(executed) /\ cursor = END)

C6_Witness ==
    /\ status = "Completed"
    /\ cursor = END
    /\ gate = "Resolved"
    /\ resolveCalls = 10

\* C9: from the opening of the gate to its resolution or timeout the run runs
\* no node and resolves no edge, and the gate never takes a message of the run
\* itself for the answer.
C9_GateBlocksRun ==
    ~hist.actedWhileOpen /\ ~hist.ownMessage

\* the node the edges put after the gate
GateSuccessor(v) ==
    CASE v = "core" -> "responsible_party"
      [] v = "gemini" -> "classify_irr_topic"
      [] v = "approval" -> "complete"
      [] OTHER -> "find_party"

\* the gate node has just returned with the human's answer
JustResolved ==
    /\ variant # "approval"
    /\ gate = "Resolved"
    /\ pc = "route"
    /\ cursor = GateNode(variant)

\* C10 as stated: after resolve every field the overrides name holds the
\* override value and every other field holds its prior value; the next node
\* is the gate's successor.
C10_OverwriteEveryField ==
    /\ JustResolved =>
          /\ \A f \in DOMAIN hist.overrides : state[f] = hist.overrides[f]
          /\ \A f \in DOMAIN hist.openState \ DOMAIN hist.overrides :
                state[f] = hist.openState[f]
    /\ variant # "approval" => hist.afterGate \in {"none", GateSuccessor(variant)}

\* C10 amended: the same for every field but the needs-human flag, which is
\* false after resolve whatever the overrides say, and the log.
C10_Overwrite ==
    /\ JustResolved =>
          /\ \A f \in DOMAIN hist.overrides \ {"human_intervention_needed"} :
                state[f] = hist.overrides[f]
          /\ \A f \in DOMAIN hist.openState \ (DOMAIN hist.overrides \cup Bookkeeping) :
                state[f] = hist.openState[f]
          /\ ~Flag(state)
    /\ variant # "approval" => hist.afterGate \in {"none", GateSuccessor(variant)}

C10_Witness ==
    /\ JustResolved
    /\ variant = "gemini"
    /\ hist.overrides = [summary |-> "edited", obligation_sentence |-> "edited"]
    /\ state.summary = "edited"
    /\ state.title = "T"

\* what the gate node returned on: a line typed at the prompt, or a
\* human_feedback message whose payload is a mapping of field overrides
Responses == {"input", "human_feedback"}

\* C11: resolve always clears pending.  Once the gate has finished with a
\* response, the needs-human flag is false when the next step starts and for
\* the rest of the run, whatever the response held: an override of the flag
\* itself, other overrides, or nothing at all.
C11_ResolveClearsPending ==
    hist.ended \in Responses => ~Flag(state)

C11_Witness ==
    /\ hist.ended = "human_feedback"
    /\ "human_intervention_needed" \in DOMAIN hist.overrides
    /\ hist.overrides["human_intervention_needed"]
    /\ Flag(hist.openState)
    /\ ~Flag(state)
    /\ pc = "exec"
    /\ cursor = GateSuccessor(variant)

\* the intervention requests of the run that were sent and not yet answered
\* or given up
OpenRequests == hist.opened - hist.closed

\* C12: at every reachable state a run has at most one open intervention
\* request (a second open while one is open is refused and changes nothing).
C12_AtMostOneOpenRequest ==
    OpenRequests <= 1

\* C13: a request goes Open -> Resolved or Open -> TimedOut and nowhere else:
\* it leaves Open by a response or by its deadline, and once Resolved or
\* TimedOut it stays so (a late message changes nothing, nothing re-opens it).
\* Stated on every step that stays within one request of one run.
C13_RequestLifecycle ==
    [][(hist'.opened = hist.opened /\ runs' = runs) =>
          /\ gate = "Open" => gate' \in {"Open", "Resolved", "TimedOut"}
          /\ gate \in {"Resolved", "TimedOut"} => gate' = gate]_vars

\* C14: a query is answered at any time and leaves the run alone.  Stated for
\* the suspended run: when a user_query arrives while the gate is open, the
\* request stays open, the run stays suspended with its state, and the client
\* gets the answer.
C14_QueryDuringSuspension ==
    [][(status = "Suspended" /\ hist'.ended = "user_query") =>
          /\ gate' = "Open"
          /\ status' = "Suspended"
          /\ state' = state
          /\ sent'[Len(sent')] = "query_answer"]_vars

\* C15: a query returns the last committed state: what the last completed
\* step (or the start of the run) left, never a state that holds part of the
\* update of a step that did not complete.
C15_QuerySeesCommitted ==
    (hist.snapshot # <<>> /\ sent[Len(sent)] = "query_answer") =>
        hist.snapshot = hist.committed

\* the progress messages sent so far for finished steps
StepEventsSent ==
    Len(SelectSeq(sent, LAMBDA e : <<e>> = StepEvent(variant)))

\* C16: the progress event of a step is published only after the step's
\* update is merged and its checkpoint is saved: at no time have more step
\* events been sent than steps were merged, nor more than checkpoints saved.
C16_EventAfterCheckpoint ==
    /\ StepEventsSent <= Len(executed)
    /\ StepEventsSent <= Len(SavedCheckpoints(variant))

\* the types of the messages sent so far
Told == {sent[i] : i \in 1..Len(sent)}

\* C17: a step-level error is not caught and resumed.  The step whose oracle
\* response does not parse is the last step of the run, the run is Failed,
\* and the subscriber is told of the error and never of a completion.
C17_ErrorEndsRun ==
    \A i \in 1..Len(executed) :
        Malformed(variant, executed[i], hist.responses[i]) =>
            /\ i = Len(executed)
            /\ status = "Failed"
            /\ variant = "gemini" => "error" \in Told
            /\ ~(\E e \in Told : <<e>> = FinalEvent(variant))

\* C19: resolving the successor of the node that just ran gives nothing when
\* the node's edge leads to END (the run completes there), the target of the
\* node's unconditional edge when it has one, and otherwise the node the label
\* map gives for the label the router returns on the state; the state is not
\* changed by it.
C19_ResolveNext ==
    [][resolveCalls' = resolveCalls + 1 =>
          /\ state' = state
          /\ Edge(variant, cursor) = END => (cursor' = END /\ pc' \notin {"exec", "gate"})
          /\ Edge(variant, cursor) \notin {END, NoEdge} => cursor' = Edge(variant, cursor)
          /\ Edge(variant, cursor) = NoEdge =>
                cursor' = LabelMap(variant)[Router(variant, state)]]_vars

\* the router chose the branch around the gate and the successor runs
C19_Witness ==
    /\ variant = "core"
    /\ ~Flag(state)
    /\ gate = "none"
    /\ cursor = "responsible_party"
    /\ pc = "exec"
    /\ resolveCalls = Len(executed)
    /\ executed # <<>>
    /\ executed[Len(executed)] = "theme"

\* C21: cancelling a run (a subscriber disconnect counts as one) fails the
\* run and no step of that run executes afterwards.  Stated with the step
\* that was under way when the client went allowed to finish: no node after
\* that one executes.
C21_NoStepAfterCancel ==
    hist.disconnected => Len(executed) <= hist.goneAt + 1

\* C22: a run's envelope and pending request are its own: what another run
\* does (here the decision given to another session of the same client id)
\* changes neither this run's state nor the channel its request waits on.
C22_RunsShareNothing ==
    [][hist'.foreign # hist.foreign => (queue' = queue /\ state' = state)]_vars

\* C24: within one session at most one step executes at a time.  A node
\* executes only when every node before it has returned and its successor
\* has been resolved, and a start request is taken up only when no run is
\* under way, so the steps of two analyses never interleave.
C24_OneStepAtATime ==
    [][/\ executed' # executed /\ runs' = runs => resolveCalls = Len(executed)
       /\ runs' # runs => (pc = "idle" /\ status \notin {"Running", "Suspended"})]_vars

\* a second analysis of the same session executes its steps
C24_Witness ==
    /\ variant = "gemini"
    /\ runs = 2
    /\ Len(executed) = 2
    /\ pc = "route"
    /\ status = "Running"

\* the nodes (the gate included) that returned an update that was applied
Applied == Len(executed) - (IF status = "Failed" THEN 1 ELSE 0)

\* C26: a checkpoint is created after every successful step application and
\* after every intervention resolution (and is never changed afterwards): the
\* run has saved at least as many checkpoints as it has applied updates.
C26_CheckpointPerStep ==
    Len(SavedCheckpoints(variant)) >= Applied

\* C28: in the approval workflow the complete step executes only after a user
\* decision with approved = true was taken for the latest request: whenever
\* the run is at complete, the state says approved and the last item the wait
\* step received is a decision that approves; without one the run never gets
\* there.
C28_CompleteOnlyApproved ==
    (variant = "approval" /\ cursor \in {"complete", END}) =>
        /\ Get(state, "approved", FALSE)
        /\ gate = "Resolved"
        /\ "approved" \in DOMAIN hist.overrides
        /\ hist.overrides["approved"]

\* the complete step has executed
C28_Witness ==
    /\ variant = "approval"
    /\ cursor = "complete"
    /\ pc = "route"
    /\ executed[Len(executed)] = "complete"
    /\ state.message = "Approval received."

\* the classifier step of each analysis workflow
Classifier(v) ==
    CASE v = "core" -> "theme"
      [] v = "gemini" -> "classify_irr_topic"
      [] OTHER -> "classify_theme"

\* the places in the run where node n executed
Places(n) == {i \in 1..Len(executed) : executed[i] = n}

\* the human intervention step executes iff the flag was set when the router
\* after node `after` was evaluated, at most once, and when the flag was not
\* set the run goes from `after` directly to node `direct`
GateIffFlag(after, direct) ==
    /\ Cardinality(Places(GateNode(variant))) <= 1
    /\ \A i \in Places(GateNode(variant)) :
          /\ i > 1
          /\ executed[i - 1] = after
          /\ hist.flagAtRouter = <<TRUE>>
    /\ \A i \in Places(after) :
          i < Len(executed) =>
             /\ Len(hist.flagAtRouter) = 1
             /\ executed[i + 1] = IF hist.flagAtRouter[1] THEN GateNode(variant) ELSE direct

\* C29 as stated: in the analysis workflows the router is evaluated after the
\* classifier step; the human intervention step executes iff the flag is set
\* then, at most once per run; otherwise the run goes directly to the step
\* that locates the responsible party.
C29_GateAfterClassifier ==
    variant # "approval" =>
        GateIffFlag(Classifier(variant),
                    IF variant = "core" THEN "responsible_party" ELSE "find_party")

\* C29 amended: the same with the router where each script has it: after the
\* classifier in central_mind, langgraph_based and core, after the obligation
\* extractor (and before the classifier) in gemini; the direct successor is
\* the party locator in the first three and the classifier in gemini.
C29_GateIffFlag ==
    variant # "approval" =>
        GateIffFlag(IF variant = "gemini" THEN "extract_obligation" ELSE Classifier(variant),
                    IF variant = "gemini" THEN Classifier(variant)
                    ELSE IF variant = "core" THEN "responsible_party" ELSE "find_party")

\* gemini: the gate ran between the obligation extractor and the classifier
C29_Witness ==
    /\ variant = "gemini"
    /\ Len(executed) >= 5
    /\ executed[3] = "extract_obligation"
    /\ executed[4] = "human_intervention"
    /\ executed[5] = "classify_irr_topic"
    /\ hist.flagAtRouter = <<TRUE>>

\* states that differ in the needs-human flag: absent, true, false
FlagValues ==
    { <<>>, [human_intervention_needed |-> TRUE], [human_intervention_needed |-> FALSE] }

\* C30: the router of every conditional edge of the analysis workflows
\* returns only labels its label map declares, whether the flag is true,
\* false or absent, so a run at the branching node always has a successor.
C30_RouterLabelsDeclared ==
    /\ \A v \in Variants \ {"approval"} : \A st \in FlagValues :
          Router(v, st) \in DOMAIN LabelMap(v)
    /\ (variant # "approval" /\ pc = "route" /\ cursor = Branching(variant)) =>
          /\ Router(variant, state) \in DOMAIN LabelMap(variant)
          /\ resolve_next(variant, cursor, state) # NoEdge

\* langgraph_based: the router is about to be evaluated on a state with the flag set
C30_Witness ==
    /\ variant = "langgraph_based"
    /\ pc = "route"
    /\ cursor = "classify_theme"
    /\ Flag(state)
    /\ Router(variant, state) = "human_intervention_node"
    /\ LabelMap(variant)[Router(variant, state)] = "human_intervention"

\* the scripts that build the analysis workflow as a graph
Graphs == {"central_mind", "langgraph_based", "core"}

\* the nodes add_node gives each graph
GraphNodes(v) ==
    IF v = "core"
    THEN {"extractor", "regulation_summary", "markdown", "terms", "knowledge",
          "obligation", "theme", "human_intervention_node", "responsible_party",
          "compliance_dates", "divisional_impact", "ownership", "summary"}
    ELSE {"extract_terms", "retrieve_context", "extract_obligation", "classify_theme",
          GateNode(v), "find_party", "identify_division", "score_risk", "summarize",
          "qa_critic"}

\* where the run can go from node n: along its edge, or to any target of the
\* conditional edge
Successors(v, n) ==
    IF Edge(v, n) # NoEdge THEN {Edge(v, n)}
    ELSE IF n = Branching(v) THEN {LabelMap(v)[l] : l \in DOMAIN LabelMap(v)}
    ELSE {}

\* every path from n arrives at END within `fuel` nodes
RECURSIVE AllPathsEnd(_, _, _)
AllPathsEnd(v, n, fuel) ==
    \/ n = END
    \/ /\ fuel > 0
       /\ Successors(v, n) # {}
       /\ \A m \in Successors(v, n) : AllPathsEnd(v, m, fuel - 1)

\* C31: every run of the analysis workflow graph ends at END when every step
\* and the human return.  The graph has no cycle and END is reached from every
\* node on both branches of the conditional edge (every path from a node ends
\* at END within as many nodes as the graph has), no node executes twice in a
\* run, and a run that completes is at END.
C31_GraphEndsAtEnd ==
    variant \in Graphs =>
        /\ \A n \in GraphNodes(variant) :
              AllPathsEnd(variant, n, Cardinality(GraphNodes(variant)))
        /\ \A i, j \in 1..Len(executed) : executed[i] = executed[j] => i = j
        /\ \A i \in 1..Len(executed) : executed[i] \in GraphNodes(variant)
        /\ status = "Completed" => cursor = END

\* core: the run went around the gate and arrived at END
C31_Witness ==
    /\ variant = "core"
    /\ status = "Completed"
    /\ cursor = END
    /\ gate = "none"
    /\ Len(executed) = 12
    /\ executed[12] = "summary"

\* what ends the gate of the socket handler other than a human_feedback message
NotFeedback == {"timeout", "invalid_json", "user_query", "other_type", "closed"}

\* C32: when the human intervention step of the socket handler ends for a
\* reason other than a human_feedback message, it returns the state it was
\* given: no field is changed and the needs-human flag is as it was.
C32_GateReturnsStateAsGiven ==
    [][(variant = "gemini" /\ executed' = Append(executed, GateNode(variant))
          /\ hist'.ended \in NotFeedback) =>
          /\ state' = state
          /\ Flag(state') = Flag(state)
          /\ hist'.overrides = <<>>]_vars

\* the gate timed out and the run goes on with the state the gate was given
C32_Witness ==
    /\ variant = "gemini"
    /\ hist.ended = "timeout"
    /\ gate = "TimedOut"
    /\ pc = "route"
    /\ state = hist.openState
    /\ Flag(state)

\* the order the claim lists: terms, context, obligation, classifier,
\* optional gate, party, division, risk, summary, QA critic
ListedOrder(v) ==
    <<"extract_terms", "retrieve_context", "extract_obligation", Classifier(v),
      GateNode(v), "find_party", "identify_division", "score_risk", "summarize",
      "qa_critic">>

\* the order of the calls in the socket handler
HandlerOrder ==
    <<"extract_terms", "retrieve_context", "extract_obligation", "human_intervention",
      "classify_irr_topic", "summarize">>

\* the nodes executed so far are the first nodes of the order, with or
\* without the gate, and the summary has not executed while the gate waits
InOrder(order) ==
    /\ \/ IsPrefix(executed, order)
       \/ IsPrefix(executed, SelectSeq(order, LAMBDA n : n # GateNode(variant)))
    /\ Places("summarize") # {} => gate # "Open"

Finals == SelectSeq(sent, LAMBDA e : e = "analysis_complete")

\* the messages sent are those of an accepted start_analysis request that the
\* handler has finished with
RunOver ==
    /\ variant = "gemini"
    /\ pc \in {"idle", "closed"}
    /\ sent # <<>>
    /\ sent[1] = "info"

\* analysis_complete follows the progress events of all executed steps (one
\* for each step that is not the gate), no progress event follows it, and
\* its payload is the state the last step returned
SentLast ==
    \A i \in 1..Len(sent) :
        sent[i] = "analysis_complete" =>
            /\ \A j \in 1..Len(sent) : sent[j] = "progress" => j < i
            /\ StepEventsSent = Cardinality({k \in 1..Len(executed) :
                                                executed[k] # GateNode(variant)})
            /\ executed[Len(executed)] = "summarize"
            /\ hist.final = hist.committed
            /\ hist.final = state

\* C34 as stated: for each accepted start_analysis request the handler sends
\* exactly one analysis_complete event, after the progress events of all
\* executed steps, with the state the last step returned as its payload, and
\* no progress event of the run follows it.
C34_OneCompletionPerStart ==
    RunOver => (Len(Finals) = 1 /\ SentLast)

\* C34 amended: at most one analysis_complete event is sent for an accepted
\* start_analysis request, and exactly one when the run completes: when a
\* step raises, or the client has gone, none is sent.  When sent, it follows
\* the progress events of all executed steps, its payload is the state the
\* last step returned, and no progress event of the run follows it.
C34_OneCompletionPerCompletedRun ==
    variant = "gemini" =>
        /\ Len(Finals) <= 1
        /\ (RunOver /\ status = "Completed") => Len(Finals) = 1
        /\ Len(Finals) = 1 => status = "Completed"
        /\ SentLast

\* gemini: a run went through its six steps and analysis_complete was sent
C34_Witness ==
    /\ variant = "gemini"
    /\ pc = "idle"
    /\ status = "Completed"
    /\ Len(executed) = 6
    /\ sent[Len(sent)] = "analysis_complete"
    /\ hist.final = state

\* how the handler takes a request it rejects
Rejections == {"start_rejected", "query_rejected", "unknown"}

\* C35: a rejected request (a start_analysis without the separator, a
\* user_query before any analysis, a message of unknown type) produces one
\* error reply, executes no step, calls the oracle zero times and leaves the
\* session's current state as it was.
C35_RejectionChangesNothing ==
    [][(/\ variant = "gemini"
        /\ hist'.request \in Rejections
        /\ hist'.request # hist.request \/ sent' # sent) =>
          /\ sent' = <<"error">> \/ sent' = Append(sent, "error")
          /\ executed' = executed
          /\ hist'.oracleCalls = hist.oracleCalls
          /\ state' = state
          /\ status' = status
          /\ pc' = pc]_vars

\* gemini: after a completed analysis a start_analysis without the separator
\* was answered with an error, and the state of the analysis is still there
C35_Witness ==
    /\ variant = "gemini"
    /\ hist.request = "start_rejected"
    /\ sent = <<"error">>
    /\ status = "Completed"
    /\ state # <<>>
    /\ Len(executed) = 6

\* gemini: a user_query before any analysis was answered with an error
C35_QueryBeforeAnalysis ==
    /\ variant = "gemini"
    /\ hist.request = "query_rejected"
    /\ state = <<>>
    /\ sent[Len(sent)] = "error"
    /\ hist.oracleCalls = 0

====
